---- MODULE Spec2Model ----
\* The authenticated API client of the retinal detection frontend: the axios
\* instance `api` with its request interceptor (the Request Dispatcher) and its
\* response interceptor (the Refresh Coordinator), the `auth` functions, and the
\* AuthProvider of contexts/AuthContext.tsx, over one page lifetime.
\*
\* JavaScript runs each task to completion and drains the microtask queue before
\* the next task: the continuation of an awaited network call (the response
\* interceptor, the interceptors of the request it reissues, the code after
\* `await auth.login`) runs without any other handler in between. Each such
\* continuation is therefore one action. What the network answers, and when, is
\* chosen by the environment.
EXTENDS Integers, Sequences, FiniteSets, TLC

\* ---------------------------------------------------------------- bounds

\* Number of Domain Client / auth calls issued in one page lifetime.
MaxCalls == 2
CallIds == 1..MaxCalls

\* Analyses waiting for their timer at one time.
MaxAnalyses == 2

\* Object URLs made in a run.
MaxObjectURLs == 3

\* ---------------------------------------------------------------- values

\* null / undefined: what getItem returns for a missing key, the initial React
\* user, a request without an Authorization header.
Null == <<>>

Truthy(v) == v # Null

Accounts == {"testdoctor", "nurse"}

\* Access tokens differ by issue time: the server issues one of these per account.
Serials == {1, 2}

GoodPassword == "testpass123"

Credentials ==
    {<<"cred", "testdoctor", GoodPassword>>,
     <<"cred", "nurse", GoodPassword>>,
     <<"cred", "testdoctor", "wrong">>}

AccessToken(acct, n) == <<"access", acct, n>>
RefreshToken(acct) == <<"refresh", acct>>
AccessTokens == {AccessToken(a, n) : a \in Accounts, n \in Serials}
RefreshTokens == {RefreshToken(a) : a \in Accounts}

\* The User of AuthContext.tsx, cut down to two of its ten fields.
UserId(acct) == IF acct = "testdoctor" THEN "1" ELSE "2"
UserObject(acct) == <<"user", UserId(acct), acct>>
Users == {UserObject(a) : a \in Accounts}

\* JSON.stringify of a User: the text, token by token.
JSONstringify(u) == <<"{", "id", ":", u[2], ",", "username", ":", u[3], "}">>

\* What JSON.parse throws on text that is no JSON value.
SyntaxError == <<"SyntaxError">>

\* JSON.parse of a stored user string: the User it spells, or SyntaxError.
JSONparse(s) ==
    IF /\ Len(s) = 9
       /\ s[1] = "{" /\ s[2] = "id" /\ s[3] = ":" /\ s[5] = ","
       /\ s[6] = "username" /\ s[7] = ":" /\ s[9] = "}"
    THEN <<"user", s[4], s[8]>>
    ELSE SyntaxError

\* A stored user string that does not parse.
CorruptUser == <<"undefined">>

\* `Bearer ${token}`
Bearer(token) == <<"Bearer", token>>

\* ---------------------------------------------------------------- localStorage

Keys == {"access_token", "refresh_token", "user"}

EmptyStorage == [k \in {} |-> Null]

getItem(store, key) == IF key \in DOMAIN store THEN store[key] ELSE Null

setItem(store, key, value) ==
    [k \in DOMAIN store \cup {key} |-> IF k = key THEN value ELSE store[k]]

removeItem(store, key) == [k \in DOMAIN store \ {key} |-> store[k]]

\* ---------------------------------------------------------------- server

\* The HTTP status of a response; 0 stands for a failure without a response
\* (network failure, timeout), where error.response is undefined.
NoResponse == 0
Response(status, data) == <<"response", status, data>>
Status(resp) == resp[2]
Data(resp) == resp[3]
IsSuccess(resp) == Status(resp) >= 200 /\ Status(resp) < 300

\* Failures any endpoint can answer with, whatever the request: no response at
\* all, or a status other than 401 (the only status the client tells apart).
Failures == {Response(NoResponse, Null), Response(500, Null)}

Owner(token) == token[2]

\* The body of a successful POST /auth/login/.
LoginData(access, refresh, user) == <<"login", access, refresh, user>>

\* The backend, as far as the client depends on it: POST /auth/login/ answers
\* good credentials with a session of that account and bad ones with 401;
\* GET /auth/profile/ answers a bearer token with the profile of the account the
\* token was issued to; a token may have expired at any time (401); a request
\* without a bearer token is answered 401; a resource endpoint may not know the
\* resource asked for (404).
ServerAnswers(kind, cred, auth) ==
    Failures \cup
    (CASE kind = "login" ->
            IF cred[3] = GoodPassword
            THEN {Response(200, LoginData(AccessToken(cred[2], n),
                                          RefreshToken(cred[2]),
                                          UserObject(cred[2]))) : n \in Serials}
            ELSE {Response(401, Null)}
       [] kind = "profile" ->
            IF auth = Null THEN {Response(401, Null)}
            ELSE {Response(401, Null), Response(200, UserObject(Owner(auth[2])))}
       [] OTHER ->
            {Response(404, Null)} \cup
            (IF auth = Null THEN {Response(401, Null)}
             ELSE {Response(401, Null), Response(200, <<"data">>)}))

\* The body of a successful POST /auth/refresh/.
RefreshData(access) == <<"refreshed", access>>

\* POST /auth/refresh/: a new access token of the account that owns the refresh
\* token, or a failure (401 when the refresh token is expired or rejected).
RefreshAnswers(refresh) ==
    Failures \cup {Response(401, Null)} \cup
    {Response(200, RefreshData(AccessToken(Owner(refresh), n))) : n \in Serials}

\* ---------------------------------------------------------------- client code

\* The AxiosError a failed request rejects with: which exchange failed
\* ("request" with the attempt number, or "refresh") and the status it got.
Error(source, attempt, resp) == <<"error", source, attempt, Status(resp)>>

Resolved(data) == <<"resolved", data>>
Rejected(err) == <<"rejected", err>>

\* Variant: the header is set even when no token is stored.
RequestInterceptorAlwaysSets(store, headers) ==
    LET token == getItem(store, "access_token") IN
    [Authorization |-> Bearer(token), token |-> token, store |-> store]

\* Variant: the token is attached without the "Bearer " prefix.
RequestInterceptorNoPrefix(store, headers) ==
    LET token == getItem(store, "access_token") IN
    [Authorization |-> IF Truthy(token) THEN token ELSE headers,
     token |-> token,
     store |-> store]

\* api.interceptors.request.use: reads access_token and, if there is one, sets
\* the Authorization header of the config; `headers` is the Authorization header
\* the config came with. Returns the header sent, the token read and the storage
\* as the interceptor leaves it.
RequestInterceptor(store, headers) ==
    LET token == getItem(store, "access_token") IN
    [Authorization |-> IF Truthy(token) THEN Bearer(token) ELSE headers,
     token |-> token,
     store |-> store]

\* Variant: the _retry mark is not consulted.
ShouldRefreshUnmarked(resp, retry) == Status(resp) = 401

\* Variant: every 4xx status starts a refresh.
ShouldRefreshAny4xx(resp, retry) ==
    Status(resp) >= 400 /\ Status(resp) < 500 /\ ~retry

\* The condition under which the response interceptor starts a refresh.
ShouldRefresh(resp, retry) == Status(resp) = 401 /\ ~retry

\* Variant: the refresh token survives logout.
AuthLogoutKeepsRefresh(store) ==
    removeItem(removeItem(store, "access_token"), "user")

\* auth.logout
AuthLogout(store) ==
    removeItem(removeItem(removeItem(store, "access_token"), "refresh_token"), "user")

\* Variant: the user key survives the teardown.
ClearOnRefreshErrorKeepsUser(store) ==
    removeItem(removeItem(store, "access_token"), "refresh_token")

\* The catch (refreshError) block of the response interceptor, storage part.
ClearOnRefreshError(store) ==
    removeItem(removeItem(removeItem(store, "access_token"), "refresh_token"), "user")

\* Variant: the refresh success path also drops the stored user.
StoreAccessDropsUser(store, access) ==
    removeItem(setItem(store, "access_token", access), "user")

\* Variant: an access token already stored is not overwritten.
StoreAccessKeepsExisting(store, access) ==
    IF "access_token" \in DOMAIN store THEN store
    ELSE setItem(store, "access_token", access)

\* Variant: the refreshed token is written under another key.
StoreAccessWrongKey(store, access) == setItem(store, "token", access)

\* localStorage.setItem("access_token", access) of the refresh success path.
StoreAccess(store, access) == setItem(store, "access_token", access)

\* Variant: the user object is stored without JSON.stringify.
StoreSessionUnserialized(store, data) ==
    setItem(setItem(setItem(store, "access_token", data[2]),
                    "refresh_token", data[3]),
            "user", <<"[object Object]">>)

\* Variant: the login stores the access token and the user, not the refresh
\* token.
StoreSessionWithoutRefresh(store, data) ==
    setItem(setItem(store, "access_token", data[2]),
            "user", JSONstringify(data[4]))

\* The three setItem calls of AuthProvider.login.
StoreSession(store, data) ==
    setItem(setItem(setItem(store, "access_token", data[2]),
                    "refresh_token", data[3]),
            "user", JSONstringify(data[4]))

\* ---------------------------------------------------------------- state

VARIABLES
    localStorage,   \* the Token Store: the keys present and their values
    user,           \* AuthProvider's user state (isAuthenticated is !!user)
    loading,        \* AuthProvider's loading state
    href,           \* window.location.href
    calls,          \* the calls made through `api`, by call id
    currentView,    \* Home's currentView state
    analysisResult, \* Home's analysisResult state
    uploadedFile,   \* ImageUpload's uploadedFile state
    previewUrl,     \* ImageUpload's previewUrl state
    isAnalyzing,    \* ImageUpload's isAnalyzing state
    uploadError,    \* ImageUpload's uploadError state
    analyses,       \* the analyzeImage calls waiting for their timer, oldest first
    created,        \* how many object URLs URL.createObjectURL has made
    objectURLs      \* the object URLs made and not revoked

authVars == <<localStorage, user, loading, href, calls>>

uploadVars == <<currentView, analysisResult, uploadedFile, previewUrl,
                isAnalyzing, uploadError, analyses, created, objectURLs>>

vars == <<localStorage, user, loading, href, calls,
          currentView, analysisResult, uploadedFile, previewUrl,
          isAnalyzing, uploadError, analyses, created, objectURLs>>

\* A call made through `api`:
\*   pc        "idle" (not made yet), "sent" (first attempt awaiting its
\*             response), "refreshing" (refresh exchange awaiting its response),
\*             "resent" (reissued request awaiting its response), "done"
\*   kind      "login", "profile" or "data" (any other Domain Client call)
\*   cred      the credentials of a login call
\*   retry     originalRequest._retry
\*   auth      the Authorization header of the request as last sent
\*   token     the access token the request interceptor read when it last ran
\*   sent      how many times the request was handed to the network
\*   refreshes how many refresh exchanges were sent on behalf of the call
\*   body      the refresh token in the body of the refresh exchange
\*   rauth     the Authorization header of the refresh exchange
\*   resp1, rresp, resp2   the responses to the first attempt, to the refresh
\*             exchange and to the reissued request
\*   outcome   what the caller's promise settled with
IdleCall ==
    [pc |-> "idle", kind |-> "none", cred |-> Null, retry |-> FALSE,
     auth |-> Null, token |-> Null, sent |-> 0, refreshes |-> 0,
     body |-> Null, rauth |-> Null,
     resp1 |-> Null, rresp |-> Null, resp2 |-> Null, outcome |-> Null]

\* What localStorage holds when the page loads: nothing, the session of an
\* earlier login, an access token alone, or a session whose user string does
\* not parse.
SessionOf(acct) ==
    StoreSession(EmptyStorage,
                 LoginData(AccessToken(acct, 1), RefreshToken(acct), UserObject(acct)))

PersistedStorage ==
    {EmptyStorage}
    \cup {SessionOf(a) : a \in Accounts}
    \cup {setItem(EmptyStorage, "access_token", AccessToken("testdoctor", 1))}
    \cup {setItem(SessionOf("testdoctor"), "user", CorruptUser)}

\* Home as first rendered: the "home" view, no result; ImageUpload's state is
\* kept at its useState initial values while the component is not mounted.
InitialHome ==
    /\ currentView = "home"
    /\ analysisResult = Null
    /\ uploadedFile = Null
    /\ previewUrl = Null
    /\ isAnalyzing = FALSE
    /\ uploadError = Null
    /\ analyses = <<>>
    /\ created = 0
    /\ objectURLs = {}

Init ==
    /\ localStorage \in PersistedStorage
    /\ user = Null
    /\ loading = TRUE
    /\ href = "/"
    /\ calls = [c \in CallIds |-> IdleCall]
    /\ InitialHome

\* ---------------------------------------------------------------- AuthProvider

\* Variant: a stored user that does not parse is left in the storage.
MountKeepsCorruptSession ==
    /\ loading
    /\ LET token == getItem(localStorage, "access_token")
           userData == getItem(localStorage, "user")
       IN IF Truthy(token) /\ Truthy(userData) /\ JSONparse(userData) # SyntaxError
          THEN user' = JSONparse(userData)
          ELSE UNCHANGED user
    /\ loading' = FALSE
    /\ UNCHANGED <<localStorage, href, calls>>
    /\ UNCHANGED uploadVars

\* The useEffect of AuthProvider, run once when the provider mounts.
Mount ==
    /\ loading
    /\ LET token == getItem(localStorage, "access_token")
           userData == getItem(localStorage, "user")
       IN IF Truthy(token) /\ Truthy(userData)
          THEN IF JSONparse(userData) # SyntaxError
               THEN /\ user' = JSONparse(userData)
                    /\ UNCHANGED localStorage
               ELSE /\ localStorage' =
                         removeItem(removeItem(removeItem(localStorage,
                             "access_token"), "refresh_token"), "user")
                    /\ UNCHANGED user
          ELSE UNCHANGED <<localStorage, user>>
    /\ loading' = FALSE
    /\ UNCHANGED <<href, calls>>
    /\ UNCHANGED uploadVars

\* Variant: logout clears the storage but not the React user.
LogoutKeepsUser ==
    /\ ~loading
    /\ localStorage' = AuthLogout(localStorage)
    /\ UNCHANGED <<user, loading, href, calls>>
    /\ UNCHANGED uploadVars

\* AuthProvider.logout: auth.logout(), then setUser(null).
Logout ==
    /\ ~loading
    /\ localStorage' = AuthLogout(localStorage)
    /\ user' = Null
    /\ UNCHANGED <<loading, href, calls>>
    /\ UNCHANGED uploadVars

\* ---------------------------------------------------------------- calls

\* Call ids are used in order.
CanIssue(c) ==
    /\ ~loading
    /\ calls[c].pc = "idle"
    /\ c > 1 => calls[c - 1].pc # "idle"

\* api.get / api.post: the request passes the request interceptor and is sent.
Issue(c, kind, cred) ==
    LET out == RequestInterceptor(localStorage, Null) IN
    /\ CanIssue(c)
    /\ calls' = [calls EXCEPT ![c] =
           [@ EXCEPT !.pc = "sent", !.kind = kind, !.cred = cred,
                     !.auth = out.Authorization, !.token = out.token,
                     !.sent = 1]]
    /\ localStorage' = out.store
    /\ UNCHANGED <<user, loading, href>>
    /\ UNCHANGED uploadVars

\* AuthProvider.login up to `await auth.login(credentials)`.
Login(c) == \E cred \in Credentials : Issue(c, "login", cred)

\* auth.getProfile up to its await.
GetProfile(c) == Issue(c, "profile", Null)

\* Any other Domain Client function (patients, retinalImages, analysis,
\* predictions, diseases, medicalHistory) up to its await.
DomainCall(c) == Issue(c, "data", Null)

AwaitingResponse(c) == calls[c].pc \in {"sent", "resent"}

\* The call with the response to its request recorded.
Received(c, resp) ==
    IF calls[c].pc = "sent" THEN [calls[c] EXCEPT !.resp1 = resp]
    ELSE [calls[c] EXCEPT !.resp2 = resp]

\* A 2xx response: the response interceptor passes it on, the Domain Client
\* function returns response.data; after a login, AuthProvider.login stores the
\* session and sets the user.
ResponseSuccess(c) ==
    /\ AwaitingResponse(c)
    /\ \E resp \in ServerAnswers(calls[c].kind, calls[c].cred, calls[c].auth) :
        /\ IsSuccess(resp)
        /\ calls' = [calls EXCEPT ![c] =
               [Received(c, resp) EXCEPT !.pc = "done",
                                         !.outcome = Resolved(Data(resp))]]
        /\ IF calls[c].kind = "login"
           THEN /\ localStorage' = StoreSession(localStorage, Data(resp))
                /\ user' = Data(resp)[4]
           ELSE UNCHANGED <<localStorage, user>>
    /\ UNCHANGED <<loading, href>>
    /\ UNCHANGED uploadVars

\* Variant: the refresh exchange carries the refresh token as a bearer
\* credential as well.
RefreshRequestWithBearer(refreshToken) ==
    [body |-> refreshToken, Authorization |-> Bearer(refreshToken)]

\* The refresh exchange: axios.post on the bare axios (no interceptors), with
\* the refresh token as its body.
RefreshRequest(refreshToken) == [body |-> refreshToken, Authorization |-> Null]

\* Variant: single-flight, a 401 handled while another call's refresh exchange
\* is awaiting its response sends no exchange of its own.
StartRefreshSingleFlight(c) ==
    /\ AwaitingResponse(c)
    /\ \E resp \in ServerAnswers(calls[c].kind, calls[c].cred, calls[c].auth) :
        LET refreshToken == getItem(localStorage, "refresh_token")
            req == RefreshRequest(refreshToken)
            shared == \E d \in CallIds \ {c} : calls[d].pc = "refreshing"
        IN /\ ~IsSuccess(resp)
           /\ ShouldRefresh(resp, calls[c].retry)
           /\ Truthy(refreshToken)
           /\ calls' = [calls EXCEPT ![c] =
                  [Received(c, resp) EXCEPT !.pc = "refreshing", !.retry = TRUE,
                       !.body = req.body, !.rauth = req.Authorization,
                       !.refreshes = IF shared THEN @ ELSE @ + 1]]
    /\ UNCHANGED <<localStorage, user, loading, href>>
    /\ UNCHANGED uploadVars

\* Variant: the request is not marked retried when the refresh starts.
StartRefreshWithoutMark(c) ==
    /\ AwaitingResponse(c)
    /\ \E resp \in ServerAnswers(calls[c].kind, calls[c].cred, calls[c].auth) :
        LET refreshToken == getItem(localStorage, "refresh_token")
            req == RefreshRequest(refreshToken)
        IN /\ ~IsSuccess(resp)
           /\ ShouldRefresh(resp, calls[c].retry)
           /\ Truthy(refreshToken)
           /\ calls' = [calls EXCEPT ![c] =
                  [Received(c, resp) EXCEPT !.pc = "refreshing",
                       !.body = req.body, !.rauth = req.Authorization,
                       !.refreshes = @ + 1]]
    /\ UNCHANGED <<localStorage, user, loading, href>>
    /\ UNCHANGED uploadVars

\* A failure answered 401 on a request not yet marked retried, with a refresh
\* token stored: the response interceptor marks the request and sends the
\* refresh exchange.
StartRefresh(c) ==
    /\ AwaitingResponse(c)
    /\ \E resp \in ServerAnswers(calls[c].kind, calls[c].cred, calls[c].auth) :
        LET refreshToken == getItem(localStorage, "refresh_token")
            req == RefreshRequest(refreshToken)
        IN /\ ~IsSuccess(resp)
           /\ ShouldRefresh(resp, calls[c].retry)
           /\ Truthy(refreshToken)
           /\ calls' = [calls EXCEPT ![c] =
                  [Received(c, resp) EXCEPT !.pc = "refreshing", !.retry = TRUE,
                       !.body = req.body, !.rauth = req.Authorization,
                       !.refreshes = @ + 1]]
    /\ UNCHANGED <<localStorage, user, loading, href>>
    /\ UNCHANGED uploadVars

\* Variant: a failed reissue clears the session and redirects to the login page.
RejectErrorClearsSession(c) ==
    /\ AwaitingResponse(c)
    /\ \E resp \in ServerAnswers(calls[c].kind, calls[c].cred, calls[c].auth) :
        /\ ~IsSuccess(resp)
        /\ ~(ShouldRefresh(resp, calls[c].retry)
             /\ Truthy(getItem(localStorage, "refresh_token")))
        /\ calls' = [calls EXCEPT ![c] =
               [Received(c, resp) EXCEPT !.pc = "done",
                    !.retry = @ \/ ShouldRefresh(resp, calls[c].retry),
                    !.outcome = Rejected(Error("request", calls[c].sent, resp))]]
    /\ IF calls[c].pc = "resent"
       THEN /\ localStorage' = ClearOnRefreshError(localStorage)
            /\ href' = "/login"
       ELSE UNCHANGED <<localStorage, href>>
    /\ UNCHANGED <<user, loading>>
    /\ UNCHANGED uploadVars

\* Any other failure, and a 401 with no refresh token stored: the response
\* interceptor rejects with the error it was given (after marking the request
\* retried when it was an unmarked 401).
RejectError(c) ==
    /\ AwaitingResponse(c)
    /\ \E resp \in ServerAnswers(calls[c].kind, calls[c].cred, calls[c].auth) :
        /\ ~IsSuccess(resp)
        /\ ~(ShouldRefresh(resp, calls[c].retry)
             /\ Truthy(getItem(localStorage, "refresh_token")))
        /\ calls' = [calls EXCEPT ![c] =
               [Received(c, resp) EXCEPT !.pc = "done",
                    !.retry = @ \/ ShouldRefresh(resp, calls[c].retry),
                    !.outcome = Rejected(Error("request", calls[c].sent, resp))]]
    /\ UNCHANGED <<localStorage, user, loading, href>>
    /\ UNCHANGED uploadVars

\* The header the response interceptor puts on the original request before it
\* reissues it.
RetryHeader(access) == Bearer(access)

\* The refresh exchange succeeded: store the new access token, set the header
\* and reissue the original request through `api` (request interceptor again).
RefreshSuccess(c) ==
    /\ calls[c].pc = "refreshing"
    /\ \E rresp \in RefreshAnswers(calls[c].body) :
        LET access == Data(rresp)[2]
            out == RequestInterceptor(StoreAccess(localStorage, access),
                                      RetryHeader(access))
        IN /\ IsSuccess(rresp)
           /\ calls' = [calls EXCEPT ![c] =
                  [@ EXCEPT !.pc = "resent", !.rresp = rresp,
                            !.auth = out.Authorization, !.token = out.token,
                            !.sent = @ + 1]]
           /\ localStorage' = out.store
    /\ UNCHANGED <<user, loading, href>>
    /\ UNCHANGED uploadVars

\* Where the catch block sends the browser.
LoginPage == "/login"

\* Variant: the teardown also aborts every other call in flight.
RefreshFailureAbortsOthers(c) ==
    /\ calls[c].pc = "refreshing"
    /\ \E rresp \in RefreshAnswers(calls[c].body) :
        /\ ~IsSuccess(rresp)
        /\ calls' = [d \in CallIds |->
               IF d = c
               THEN [calls[d] EXCEPT !.pc = "done", !.rresp = rresp,
                         !.outcome = Rejected(Error("refresh", 1, rresp))]
               ELSE IF calls[d].pc \in {"sent", "refreshing", "resent"}
               THEN [calls[d] EXCEPT !.pc = "done",
                         !.outcome = Rejected(<<"error", "aborted", 0, 0>>)]
               ELSE calls[d]]
    /\ localStorage' = ClearOnRefreshError(localStorage)
    /\ href' = LoginPage
    /\ UNCHANGED <<user, loading>>
    /\ UNCHANGED uploadVars

\* The refresh exchange failed: the catch block clears the session, sets the
\* location and rejects with the refresh error.
RefreshFailure(c) ==
    /\ calls[c].pc = "refreshing"
    /\ \E rresp \in RefreshAnswers(calls[c].body) :
        /\ ~IsSuccess(rresp)
        /\ calls' = [calls EXCEPT ![c] =
               [@ EXCEPT !.pc = "done", !.rresp = rresp,
                         !.outcome = Rejected(Error("refresh", 1, rresp))]]
    /\ localStorage' = ClearOnRefreshError(localStorage)
    /\ href' = LoginPage
    /\ UNCHANGED <<user, loading>>
    /\ UNCHANGED uploadVars

\* ---------------------------------------------------------------- timeouts

\* The timeout of the `api` instance, in milliseconds.
ApiTimeout == 30000

\* The timeout of the bare axios the refresh exchange is posted with: axios's
\* default, 0, which means no timeout.
NoTimeout == 0

\* The timeout of a request, by the axios instance that sends it.
TimeoutOf(instance) == IF instance = "api" THEN ApiTimeout ELSE NoTimeout

\* The timer of a request sent through `api` fires: the request fails without
\* a response and the response interceptor handles that failure.
Timeout(c) ==
    /\ TimeoutOf("api") > 0
    /\ RejectError(c)
    /\ IF calls[c].pc = "sent"
       THEN calls'[c].resp1 = Response(NoResponse, Null)
       ELSE calls'[c].resp2 = Response(NoResponse, Null)

\* The timer of a refresh exchange, if it has one, fires: the exchange fails
\* without a response and the catch block runs.
RefreshTimeout(c) ==
    /\ TimeoutOf("axios") > 0
    /\ RefreshFailure(c)
    /\ calls'[c].rresp = Response(NoResponse, Null)

\* ---------------------------------------------------------------- ImageUpload

\* A File: its name, its MIME type (as the sequence of its parts) and its size
\* in bytes.
File(name, type, size) == <<"file", name, type, size>>

Name(file) == file[2]

Type(file) == file[3]

Size(file) == file[4]

\* String.prototype.startsWith.
StartsWith(str, prefix) ==
    /\ Len(str) >= Len(prefix)
    /\ SubSeq(str, 1, Len(prefix)) = prefix

\* The size limit of onDrop.
MaxFileSize == 10 * 1024 * 1024

\* Files that reach onDrop: images below, at and above the limit, and files
\* whose type the browser did not recognise as an image.
Files ==
    { File("fundus.png", <<"image", "/", "png">>, MaxFileSize - 1),
      File("scan.jpeg", <<"image", "/", "jpeg">>, MaxFileSize),
      File("mosaic.tiff", <<"image", "/", "tiff">>, MaxFileSize + 1),
      File("notes.jpg", <<>>, MaxFileSize - 1),
      File("export.bmp", <<"application", "/", "octet-stream">>, MaxFileSize + 1) }

\* What useDropzone hands to onDrop (multiple: false): one file, or none when
\* it rejected the drop.
AcceptedFiles == {<<>>} \cup {<<f>> : f \in Files}

Message(text) == <<"message", text>>

InvalidImageMessage == Message("Please upload a valid image file")

FileTooLargeMessage == Message("File size must be less than 10MB")

\* Variant: every file counts as an image.
IsImageAlways(file) == TRUE

\* file.type.startsWith("image/")
IsImage(file) == StartsWith(Type(file), <<"image", "/">>)

\* Variant: a file of exactly the limit is too large.
TooLargeAtLimit(file) == Size(file) >= MaxFileSize

\* file.size > 10 * 1024 * 1024
TooLarge(file) == Size(file) > MaxFileSize

\* URL.createObjectURL: a URL that was never made before.
ObjectURL(n) == <<"blob", n>>

\* ImageUpload's state after useState, and so after every mount.
Unmount ==
    /\ uploadedFile' = Null
    /\ previewUrl' = Null
    /\ isAnalyzing' = FALSE
    /\ uploadError' = Null

\* onDrop(acceptedFiles).
onDrop(acceptedFiles) ==
    /\ IF acceptedFiles = <<>>
       THEN UNCHANGED <<uploadedFile, previewUrl, uploadError, created, objectURLs>>
       ELSE LET file == acceptedFiles[1] IN
            IF ~IsImage(file)
            THEN /\ uploadError' = InvalidImageMessage
                 /\ UNCHANGED <<uploadedFile, previewUrl, created, objectURLs>>
            ELSE IF TooLarge(file)
            THEN /\ uploadError' = FileTooLargeMessage
                 /\ UNCHANGED <<uploadedFile, previewUrl, created, objectURLs>>
            ELSE /\ uploadError' = Null
                 /\ uploadedFile' = file
                 /\ previewUrl' = ObjectURL(created + 1)
                 /\ created' = created + 1
                 /\ objectURLs' = objectURLs \cup {ObjectURL(created + 1)}
    /\ UNCHANGED <<currentView, analysisResult, isAnalyzing, analyses>>
    /\ UNCHANGED authVars

\* A drop on the dropzone, which is rendered while no file is uploaded.
Drop ==
    /\ currentView = "upload"
    /\ uploadedFile = Null
    /\ created < MaxObjectURLs
    /\ \E acceptedFiles \in AcceptedFiles : onDrop(acceptedFiles)

\* Variant: removeFile leaves the preview URL in place.
removeFileKeepsPreview ==
    /\ uploadedFile' = Null
    /\ uploadError' = Null
    /\ UNCHANGED <<currentView, analysisResult, isAnalyzing, analyses, created,
                   objectURLs, previewUrl>>
    /\ UNCHANGED authVars

\* removeFile().
removeFile ==
    /\ uploadedFile' = Null
    /\ IF Truthy(previewUrl)
       THEN /\ objectURLs' = objectURLs \ {previewUrl}
            /\ previewUrl' = Null
       ELSE UNCHANGED <<objectURLs, previewUrl>>
    /\ uploadError' = Null
    /\ UNCHANGED <<currentView, analysisResult, isAnalyzing, analyses, created>>
    /\ UNCHANGED authVars

\* A click on one of the two remove buttons, rendered while a file is uploaded.
Remove ==
    /\ currentView = "upload"
    /\ uploadedFile # Null
    /\ removeFile

\* Variant: analyzeImage without its check of uploadedFile.
analyzeImageUnchecked ==
    /\ Len(analyses) < MaxAnalyses
    /\ isAnalyzing' = TRUE
    /\ analyses' = Append(analyses, uploadedFile)
    /\ UNCHANGED <<currentView, analysisResult, uploadedFile, previewUrl,
                   uploadError, created, objectURLs>>
    /\ UNCHANGED authVars

\* analyzeImage() up to its await: without a file it returns at once; with one
\* it sets isAnalyzing and starts the timer, the rest of the function keeping
\* the uploadedFile of this render.
analyzeImage ==
    IF ~Truthy(uploadedFile)
    THEN UNCHANGED vars
    ELSE /\ Len(analyses) < MaxAnalyses
         /\ isAnalyzing' = TRUE
         /\ analyses' = Append(analyses, uploadedFile)
         /\ UNCHANGED <<currentView, analysisResult, uploadedFile, previewUrl,
                        uploadError, created, objectURLs>>
         /\ UNCHANGED authVars

\* analyzeImage called on the mounted component. Its button is rendered while a
\* file is uploaded and is disabled while isAnalyzing; a call with no file
\* uploaded is the case the function's own check answers.
Analyze ==
    /\ currentView = "upload"
    /\ ~isAnalyzing
    /\ analyzeImage

\* The mock result of an analysis: its filename is uploadedFile.name.
MockResult(file) == <<"result", Name(file)>>

\* Home's onAnalysisComplete: setAnalysisResult(result), setCurrentView("results").
onAnalysisComplete(result) ==
    /\ analysisResult' = result
    /\ currentView' = "results"

\* Variant: an analysis whose file is no longer the uploaded one (removed, or
\* the component unmounted) ends without delivering a result.
AnalysisCompleteUnlessFileGone ==
    /\ analyses # <<>>
    /\ analyses' = Tail(analyses)
    /\ IF uploadedFile = Head(analyses)
       THEN /\ onAnalysisComplete(MockResult(Head(analyses)))
            /\ Unmount
       ELSE /\ isAnalyzing' = FALSE
            /\ UNCHANGED <<currentView, analysisResult, uploadedFile,
                           previewUrl, uploadError>>
    /\ UNCHANGED <<created, objectURLs>>
    /\ UNCHANGED authVars

\* Variant: the completion of an analysis ends it without delivering a result.
AnalysisCompleteWithoutResult ==
    /\ analyses # <<>>
    /\ analyses' = Tail(analyses)
    /\ isAnalyzing' = FALSE
    /\ UNCHANGED <<currentView, analysisResult, uploadedFile, previewUrl,
                   uploadError, created, objectURLs>>
    /\ UNCHANGED authVars

\* The timer of the oldest waiting analysis fires (the delays are equal, so the
\* timers fire in the order they were set): the rest of analyzeImage runs. It
\* builds the result, calls onAnalysisComplete, and its finally block sets
\* isAnalyzing false on a component that the switch to "results" unmounts.
AnalysisComplete ==
    /\ analyses # <<>>
    /\ onAnalysisComplete(MockResult(Head(analyses)))
    /\ analyses' = Tail(analyses)
    /\ Unmount
    /\ UNCHANGED <<created, objectURLs>>
    /\ UNCHANGED authVars

\* The views Home renders.
Views == {"home", "upload", "results", "dashboard"}

\* Navigation's and Hero's onNavigate: setCurrentView(view). Leaving "upload"
\* unmounts ImageUpload and its state is lost; its object URL is not revoked.
Navigate(view) ==
    /\ view # currentView
    /\ currentView' = view
    /\ IF currentView = "upload"
       THEN Unmount
       ELSE UNCHANGED <<uploadedFile, previewUrl, isAnalyzing, uploadError>>
    /\ UNCHANGED <<analysisResult, analyses, created, objectURLs>>
    /\ UNCHANGED authVars

\* ---------------------------------------------------------------- specification

Next ==
    \/ Mount
    \/ Logout
    \/ \E c \in CallIds : Login(c)
    \/ \E c \in CallIds : GetProfile(c)
    \/ \E c \in CallIds : DomainCall(c)
    \/ \E c \in CallIds : ResponseSuccess(c)
    \/ \E c \in CallIds : StartRefresh(c)
    \/ \E c \in CallIds : RejectError(c)
    \/ \E c \in CallIds : RefreshSuccess(c)
    \/ \E c \in CallIds : RefreshFailure(c)

Spec == Init /\ [][Next]_vars

\* The same, with what the runtime guarantees: a timer that was set fires unless
\* its request settled first. Nothing makes the server answer.
FairSpec ==
    /\ Init /\ [][Next]_vars
    /\ \A c \in CallIds : WF_vars(Timeout(c)) /\ WF_vars(RefreshTimeout(c))

\* Home with ImageUpload, which makes no call through `api`: the session state
\* stays as it is on a first visit.
UploadInit ==
    /\ localStorage = EmptyStorage
    /\ user = Null
    /\ loading = TRUE
    /\ href = "/"
    /\ calls = [c \in CallIds |-> IdleCall]
    /\ InitialHome

UploadNext ==
    \/ \E view \in Views : Navigate(view)
    \/ Drop
    \/ Remove
    \/ Analyze
    \/ AnalysisComplete

UploadSpec == UploadInit /\ [][UploadNext]_vars

\* The same, with what the runtime guarantees: a timer that was set fires.
UploadFairSpec ==
    /\ UploadInit /\ [][UploadNext]_vars
    /\ WF_vars(AnalysisComplete)

\* Whatever a browser may hold under the three keys when the page loads: each
\* key absent or present, the user string one that JSON.stringify wrote or one
\* that does not parse.
StoredAtLoad ==
    LET access == {Null} \cup AccessTokens
        refresh == {Null} \cup RefreshTokens
        userData == {Null, CorruptUser} \cup {JSONstringify(u) : u \in Users}
        Put(store, key, value) ==
            IF value = Null THEN store ELSE setItem(store, key, value)
    IN {Put(Put(Put(EmptyStorage, "access_token", a), "refresh_token", r), "user", u) :
            a \in access, r \in refresh, u \in userData}

\* AuthProvider on its own: the mount check on any stored state, and logout.
MountInit ==
    /\ localStorage \in StoredAtLoad
    /\ user = Null
    /\ loading = TRUE
    /\ href = "/"
    /\ calls = [c \in CallIds |-> IdleCall]
    /\ InitialHome

MountNext ==
    \/ Mount
    \/ Logout

MountSpec == MountInit /\ [][MountNext]_vars

TypeOK ==
    /\ DOMAIN localStorage \subseteq Keys
    /\ loading \in BOOLEAN
    /\ href \in {"/", LoginPage}
    /\ \A c \in CallIds :
        /\ calls[c].pc \in {"idle", "sent", "refreshing", "resent", "done"}
        /\ calls[c].sent \in 0..2
        /\ calls[c].refreshes \in 0..1

\* ---------------------------------------------------------------- properties

HasSession(store) == Keys \subseteq DOMAIN store

NoSession(store) == DOMAIN store \cap Keys = {}

\* The outcome a caller gets from a response that the response interceptor
\* passes through: the data of a success, the error of a failure.
OutcomeOf(resp, attempt) ==
    IF IsSuccess(resp) THEN Resolved(Data(resp))
    ELSE Rejected(Error("request", attempt, resp))

RefreshSucceeded(c) == calls[c].rresp # Null /\ IsSuccess(calls[c].rresp)

RefreshFailed(c) == calls[c].rresp # Null /\ ~IsSuccess(calls[c].rresp)

\* C1: a call whose first attempt was answered 401 and whose refresh exchange
\* succeeded has been sent exactly twice (the original and one reissue) with
\* one refresh exchange, the reissue carries "Bearer " + the access token the
\* exchange returned, and once the call has settled the caller has exactly
\* the outcome of the reissued request.
C1_RetryOnceWithRefreshedToken ==
    \A c \in CallIds :
        (calls[c].resp1 # Null /\ Status(calls[c].resp1) = 401 /\ RefreshSucceeded(c))
        => /\ calls[c].pc \in {"resent", "done"}
           /\ calls[c].sent = 2
           /\ calls[c].refreshes = 1
           /\ calls[c].auth = Bearer(Data(calls[c].rresp)[2])
           /\ calls[c].pc = "done" =>
                /\ calls[c].resp2 # Null
                /\ calls[c].outcome = OutcomeOf(calls[c].resp2, 2)

\* C1 witness: a Domain Client call, the only call made, issued with a session
\* stored, answered 401, refreshed, reissued and resolved with the reissue's data.
C1_Witness ==
    /\ calls[1].kind = "data"
    /\ calls[1].pc = "done"
    /\ calls[2].pc = "idle"
    /\ Status(calls[1].resp1) = 401
    /\ RefreshSucceeded(1)
    /\ IsSuccess(calls[1].resp2)
    /\ calls[1].outcome = Resolved(Data(calls[1].resp2))
    /\ HasSession(localStorage)

\* The step in which call c's refresh exchange is answered with a failure.
RefreshFailsNow(c) ==
    /\ calls[c].pc = "refreshing"
    /\ calls'[c].rresp # Null
    /\ ~IsSuccess(calls'[c].rresp)

\* C2: in the state that results from a failed refresh exchange (error response
\* or no response), access_token, refresh_token and user are absent from
\* localStorage, the location is the login page, and the call is rejected with
\* the refresh error, not with the 401 error of the original request.
C2_RefreshFailureTearsDown ==
    [][\A c \in CallIds :
          RefreshFailsNow(c) =>
             /\ NoSession(localStorage')
             /\ href' = LoginPage
             /\ calls'[c].pc = "done"
             /\ calls'[c].outcome = Rejected(Error("refresh", 1, calls'[c].rresp))
             /\ calls'[c].outcome # Rejected(Error("request", 1, calls'[c].resp1))]_vars

\* C2 witness: a refresh exchange answered 401 while a session was stored has
\* left the storage empty, the location at the login page and the call
\* rejected with the refresh error.
C2_Witness ==
    /\ calls[1].pc = "done"
    /\ calls[2].pc = "idle"
    /\ RefreshFailed(1)
    /\ Status(calls[1].rresp) = 401
    /\ calls[1].outcome = Rejected(Error("refresh", 1, calls[1].rresp))
    /\ NoSession(localStorage)
    /\ href = LoginPage

\* The step in which call c's request, not yet marked retried, is answered 401
\* while no refresh token is stored.
Unauthorized401WithoutRefreshToken(c) ==
    /\ AwaitingResponse(c)
    /\ ~calls[c].retry
    /\ calls[c].resp1 = Null
    /\ calls'[c].resp1 # Null
    /\ Status(calls'[c].resp1) = 401
    /\ ~Truthy(getItem(localStorage, "refresh_token"))

\* C3: a request answered 401, not yet marked retried, with no refresh token
\* stored, takes the coordinator to Failed: localStorage is cleared of
\* access_token, refresh_token and user, the location becomes the login page,
\* and the call is rejected.
C3_NoRefreshTokenTearsDown ==
    [][\A c \in CallIds :
          Unauthorized401WithoutRefreshToken(c) =>
             /\ NoSession(localStorage')
             /\ href' = LoginPage
             /\ calls'[c].pc = "done"
             /\ calls'[c].outcome # Null
             /\ calls'[c].outcome[1] = "rejected"]_vars

\* C4: a request that passed the request interceptor when it read no
\* access_token (first attempt or reissue) carries no Authorization header.
C4_NoTokenNoHeader ==
    \A c \in CallIds :
        (calls[c].sent > 0 /\ calls[c].token = Null) => calls[c].auth = Null

\* C4 witness: a Domain Client call in flight that was sent with no
\* access_token stored, without an Authorization header.
C4_Witness ==
    \E c \in CallIds :
        /\ calls[c].pc = "sent"
        /\ calls[c].kind = "data"
        /\ calls[c].token = Null
        /\ calls[c].auth = Null
        /\ getItem(localStorage, "access_token") = Null

\* The step in which call c's request passes the request interceptor and is sent.
DispatchedNow(c) == calls'[c].sent = calls[c].sent + 1

\* The storage the request interceptor runs on in that step: the storage as
\* it is for a first attempt, and with the refreshed access token written by
\* the response interceptor for a reissue.
StorageAtDispatch(c) ==
    IF calls[c].pc = "refreshing"
    THEN setItem(localStorage, "access_token", Data(calls'[c].rresp)[2])
    ELSE localStorage

\* C5: a request that passes the request interceptor while an access_token is
\* stored is sent with Authorization = "Bearer " + that access_token, and the
\* interceptor leaves localStorage exactly as it found it.
C5_BearerOfStoredToken ==
    [][\A c \in CallIds :
          DispatchedNow(c) =>
             /\ localStorage' = StorageAtDispatch(c)
             /\ Truthy(getItem(StorageAtDispatch(c), "access_token")) =>
                  calls'[c].auth = Bearer(getItem(StorageAtDispatch(c), "access_token"))]_vars

\* C5 witness: a first attempt in flight that carries "Bearer " + the stored
\* access token, with the whole session still stored.
C5_Witness ==
    \E c \in CallIds :
        /\ calls[c].pc = "sent"
        /\ HasSession(localStorage)
        /\ calls[c].auth = Bearer(localStorage["access_token"])

\* The step in which call c's refresh exchange is answered with a success.
RefreshSucceedsNow(c) ==
    /\ calls[c].pc = "refreshing"
    /\ calls'[c].rresp # Null
    /\ IsSuccess(calls'[c].rresp)

\* C6: a successful refresh exchange changes access_token only, to the value the
\* exchange returned; refresh_token and user are as they were (present with
\* the same value, or absent as before).
C6_RefreshWritesAccessOnly ==
    [][\A c \in CallIds :
          RefreshSucceedsNow(c) =>
             /\ getItem(localStorage', "access_token") = Data(calls'[c].rresp)[2]
             /\ DOMAIN localStorage' = DOMAIN localStorage \cup {"access_token"}
             /\ \A k \in DOMAIN localStorage \ {"access_token"} :
                    localStorage'[k] = localStorage[k]]_vars

\* C6 witness: after a successful refresh the storage holds the new access
\* token next to the refresh token that was sent and a user.
C6_Witness ==
    \E c \in CallIds :
        /\ calls[c].pc = "resent"
        /\ RefreshSucceeded(c)
        /\ HasSession(localStorage)
        /\ localStorage["access_token"] = Data(calls[c].rresp)[2]
        /\ localStorage["access_token"] # AccessToken(Owner(calls[c].body), 1)
        /\ localStorage["refresh_token"] = calls[c].body

\* A step of AuthProvider.logout that changes something: no other operation
\* leaves loading, href and every call as they are.
LogoutNow ==
    /\ UNCHANGED <<loading, href, calls>>
    /\ <<localStorage, user>>' # <<localStorage, user>>

\* C7: logout is defined in every state and leaves access_token, refresh_token
\* and user absent and the context user null; a second logout leaves the same
\* empty state (logout;logout = logout).
C7_LogoutIdempotent ==
    /\ [](LET once == AuthLogout(localStorage)
          IN /\ NoSession(once)
             /\ AuthLogout(once) = once)
    /\ [][LogoutNow =>
             /\ NoSession(localStorage')
             /\ user' = Null
             /\ localStorage' = AuthLogout(localStorage')]_vars

\* C7 witness: a login has resolved and stored its session, and a logout since
\* has left the storage empty and the context user null.
C7_Witness ==
    /\ calls[1].kind = "login"
    /\ calls[1].pc = "done"
    /\ calls[1].outcome # Null
    /\ calls[1].outcome[1] = "resolved"
    /\ calls[2].pc = "idle"
    /\ href = "/"
    /\ NoSession(localStorage)
    /\ user = Null

ResolvedCall(c, kind) ==
    /\ calls[c].kind = kind
    /\ calls[c].pc = "done"
    /\ calls[c].outcome # Null
    /\ calls[c].outcome[1] = "resolved"

\* getProfile call p was made with the session login l stored, and that
\* session is still the stored one: the stored refresh token is the one l
\* received, the stored access token is the one l received or the one p's own
\* refresh exchange (made with l's refresh token) returned, and p's request
\* carried the stored access token.
MadeWithSessionOf(p, l) ==
    LET session == calls[l].outcome[2]
        access == getItem(localStorage, "access_token")
    IN /\ getItem(localStorage, "refresh_token") = session[3]
       /\ getItem(localStorage, "user") # Null
       /\ \/ access = session[2]
          \/ /\ RefreshSucceeded(p)
             /\ calls[p].body = session[3]
             /\ access = Data(calls[p].rresp)[2]
       /\ calls[p].auth = Bearer(access)

isAuthenticated == user # Null

\* C9 as stated: in every reachable state the user is authenticated exactly
\* when a session (access_token, refresh_token and user) is stored.
C9_AuthenticatedIffSession == isAuthenticated <=> HasSession(localStorage)

\* C9 as amended: once the mount check has run, and unless a failed refresh
\* has cleared the storage and sent the browser to the login page, the user is
\* authenticated exactly when a session is stored.
C9_AuthenticatedIffSessionWhenSettled ==
    (~loading /\ href # LoginPage) => (isAuthenticated <=> HasSession(localStorage))

\* C9 witness: a settled, authenticated state whose session and context user
\* were stored by the login made as the second call.
C9_Witness ==
    /\ ~loading
    /\ href # LoginPage
    /\ isAuthenticated
    /\ HasSession(localStorage)
    /\ ResolvedCall(2, "login")
    /\ localStorage["access_token"] = calls[2].outcome[2][2]
    /\ user = calls[2].outcome[2][4]

\* The step in which call c's first attempt is answered 401 while a refresh
\* token is stored.
Unauthorized401WithRefreshToken(c) ==
    /\ calls[c].pc = "sent"
    /\ calls'[c].resp1 # Null
    /\ Status(calls'[c].resp1) = 401
    /\ Truthy(getItem(localStorage, "refresh_token"))

\* C10: no single-flight. A first attempt answered 401 while a refresh token is
\* stored sends its own refresh exchange with that refresh token, whatever
\* the other calls are doing (also while their refresh exchanges are in
\* flight), so the exchanges sent are as many as the 401s handled that way.
C10_NoSingleFlight ==
    [][\A c \in CallIds :
          Unauthorized401WithRefreshToken(c) =>
             /\ calls'[c].pc = "refreshing"
             /\ calls'[c].refreshes = calls[c].refreshes + 1
             /\ calls'[c].body = getItem(localStorage, "refresh_token")
             /\ \A d \in CallIds \ {c} : calls'[d] = calls[d]]_vars

\* C10 witness: two calls answered 401 have their two refresh exchanges in
\* flight at once.
C10_Witness ==
    /\ \A c \in {1, 2} :
          /\ calls[c].pc = "refreshing"
          /\ Status(calls[c].resp1) = 401
          /\ calls[c].refreshes = 1
    /\ calls[1].body = calls[2].body

\* C11: last writer wins. When a refresh exchange succeeds after another call's
\* exchange has succeeded, the stored access_token becomes the token this
\* exchange returned, whatever the earlier one wrote; an earlier writer's
\* different token does not survive.
C11_LastWriterWins ==
    [][\A c \in CallIds :
          (RefreshSucceedsNow(c) /\ \E d \in CallIds \ {c} : RefreshSucceeded(d))
          => /\ getItem(localStorage', "access_token") = Data(calls'[c].rresp)[2]
             /\ \A d \in CallIds \ {c} :
                   (RefreshSucceeded(d)
                    /\ Data(calls[d].rresp)[2] # Data(calls'[c].rresp)[2])
                   => getItem(localStorage', "access_token") # Data(calls[d].rresp)[2]]_vars

\* C11 witness: two refresh exchanges sent with the same refresh token have both
\* succeeded with different tokens, both reissues are still in flight, and the
\* storage holds the token of the second call, not that of the first.
C11_Witness ==
    /\ calls[1].pc = "resent" /\ calls[2].pc = "resent"
    /\ RefreshSucceeded(1) /\ RefreshSucceeded(2)
    /\ calls[1].body = calls[2].body
    /\ Data(calls[1].rresp)[2] # Data(calls[2].rresp)[2]
    /\ getItem(localStorage, "access_token") = Data(calls[2].rresp)[2]
    /\ calls[1].auth = Bearer(Data(calls[1].rresp)[2])

\* The step in which call c's first attempt is answered with a failure other
\* than 401: another 4xx, a 5xx, or no response at all.
FailsOtherThan401Now(c) ==
    /\ calls[c].pc = "sent"
    /\ calls'[c].resp1 # Null
    /\ ~IsSuccess(calls'[c].resp1)
    /\ Status(calls'[c].resp1) # 401

\* C12: a call whose response is a failure other than 401 is attempted exactly
\* once: no refresh exchange, no reissue, localStorage (and the context user
\* and the location) unchanged, and the caller rejected with that same error.
C12_OtherFailuresPropagate ==
    [][\A c \in CallIds :
          FailsOtherThan401Now(c) =>
             /\ calls'[c].pc = "done"
             /\ calls'[c].sent = 1
             /\ calls'[c].refreshes = 0
             /\ calls'[c].resp2 = Null
             /\ calls'[c].outcome = Rejected(Error("request", 1, calls'[c].resp1))
             /\ UNCHANGED <<localStorage, user, href>>]_vars

\* C12 witness: with a session stored, one Domain Client call was rejected with
\* its 404 and another with its network failure, neither refreshed or reissued.
C12_Witness ==
    /\ HasSession(localStorage)
    /\ calls[1].pc = "done" /\ calls[2].pc = "done"
    /\ calls[1].resp1 = Response(404, Null)
    /\ calls[2].resp1 = Response(NoResponse, Null)
    /\ calls[1].outcome = Rejected(Error("request", 1, calls[1].resp1))
    /\ calls[2].outcome = Rejected(Error("request", 1, calls[2].resp1))
    /\ \A c \in {1, 2} : calls[c].sent = 1 /\ calls[c].refreshes = 0

\* C13: one timeout applies to every request made for a call, the refresh
\* exchange included, so every call that was made eventually settles, also
\* when the server never answers one of its requests.
C13_EveryCallSettles ==
    \A c \in CallIds : (calls[c].pc # "idle") ~> (calls[c].pc = "done")

\* C17: for every call and whatever the server answers, at most one refresh
\* exchange is sent on its behalf and the request is sent at most twice; a
\* request is reissued only after its one refresh, and whatever answers the
\* reissue (a 401 too) settles the call without another refresh or reissue.
C17_AtMostOneRefreshAndReissue ==
    \A c \in CallIds :
        /\ calls[c].refreshes <= 1
        /\ calls[c].sent <= 2
        /\ calls[c].sent = 2 => (calls[c].refreshes = 1 /\ calls[c].retry)
        /\ calls[c].resp2 # Null =>
             /\ calls[c].pc = "done"
             /\ calls[c].outcome = OutcomeOf(calls[c].resp2, 2)

\* C17 witness: a reissued request was answered 401 while a refresh token was
\* still stored, and the call was rejected with that 401, sent twice,
\* refreshed once.
C17_Witness ==
    \E c \in CallIds :
        /\ calls[c].pc = "done"
        /\ calls[c].retry
        /\ calls[c].resp2 = Response(401, Null)
        /\ Truthy(getItem(localStorage, "refresh_token"))
        /\ calls[c].sent = 2
        /\ calls[c].refreshes = 1
        /\ calls[c].outcome = Rejected(Error("request", 2, calls[c].resp2))

\* C18: the refresh exchange goes around both interceptors: it carries the
\* refresh token, and nothing else, in its body and no Authorization header,
\* and its own failure (a 401 too) settles the call at once, with no further
\* refresh exchange and no reissue.
C18_RefreshExchangeBypasses ==
    \A c \in CallIds :
        /\ calls[c].refreshes > 0 =>
             /\ calls[c].body \in RefreshTokens
             /\ calls[c].rauth = Null
        /\ RefreshFailed(c) =>
             /\ calls[c].pc = "done"
             /\ calls[c].refreshes = 1
             /\ calls[c].sent = 1
             /\ calls[c].outcome = Rejected(Error("refresh", 1, calls[c].rresp))

\* C18 witness: a refresh exchange sent while an access token was stored (the
\* request interceptor would have attached it) carried no Authorization
\* header; it was answered 401 and the call settled without another exchange.
C18_Witness ==
    \E c \in CallIds :
        /\ calls[c].auth # Null
        /\ calls[c].body \in RefreshTokens
        /\ calls[c].rauth = Null
        /\ calls[c].rresp = Response(401, Null)
        /\ calls[c].pc = "done"
        /\ calls[c].refreshes = 1

\* C19: whatever other calls, logouts and teardowns are interleaved, the
\* reissued request of a call carries "Bearer " + the access token that the
\* call's own refresh exchange returned.
C19_ReissueCarriesOwnToken ==
    \A c \in CallIds :
        (calls[c].sent = 2 /\ calls[c].rresp # Null)
        => calls[c].auth = Bearer(Data(calls[c].rresp)[2])

\* C19 witness: a reissue in flight carries its own refreshed token although an
\* access token was stored before its refresh was handled and the storage
\* has since been given another call's refreshed token.
C19_Witness ==
    /\ calls[1].pc = "resent"
    /\ RefreshSucceeded(1) /\ RefreshSucceeded(2)
    /\ calls[1].auth = Bearer(Data(calls[1].rresp)[2])
    /\ getItem(localStorage, "access_token") = Data(calls[2].rresp)[2]
    /\ getItem(localStorage, "access_token") # Data(calls[1].rresp)[2]

\* A call in flight can take its next step: the response to its request, or to
\* its refresh exchange, can be handled, with a success or with a failure.
CanProceed(d) ==
    /\ AwaitingResponse(d) =>
         ENABLED (ResponseSuccess(d) \/ StartRefresh(d) \/ RejectError(d))
    /\ calls[d].pc = "refreshing" =>
         ENABLED (RefreshSuccess(d) \/ RefreshFailure(d))

\* A settled call has the outcome of its own exchanges: of its reissue, of its
\* failed refresh exchange, or of its first attempt.
OwnOutcome(d) ==
    /\ calls[d].resp1 # Null
    /\ calls[d].outcome =
        IF calls[d].resp2 # Null THEN OutcomeOf(calls[d].resp2, 2)
        ELSE IF calls[d].rresp # Null
             THEN Rejected(Error("refresh", 1, calls[d].rresp))
             ELSE OutcomeOf(calls[d].resp1, 1)

ImageType(f) == Len(f[3]) >= 2 /\ f[3][1] = "image" /\ f[3][2] = "/"

\* The size of a file is at most 10 MB.
WithinLimit(f) == f[4] <= 10 * 1024 * 1024

\* The step is onDrop called with the file f on the mounted component.
DroppedNow(f) == currentView = "upload" /\ onDrop(<<f>>)

\* C14: a dropped file is accepted (it becomes uploadedFile, gets a new preview
\* URL, uploadError is cleared) if and only if its type starts with "image/" and
\* its size is at most 10 * 1024 * 1024 bytes; a file that fails both checks
\* gets the message of the type check.
C14_AcceptedIffValid ==
    [][\A f \in Files :
         DroppedNow(f) =>
            /\ (ImageType(f) /\ WithinLimit(f))
               <=> /\ uploadedFile' = f
                   /\ previewUrl' # Null
                   /\ previewUrl' \in objectURLs' \ objectURLs
                   /\ uploadError' = Null
            /\ (~ImageType(f) /\ ~WithinLimit(f)) => uploadError' = InvalidImageMessage
      ]_vars

\* C14 witness: the file of exactly 10 * 1024 * 1024 bytes was accepted, after
\* an earlier file had been accepted and removed.
C14_Witness ==
    /\ currentView = "upload"
    /\ uploadedFile # Null
    /\ Size(uploadedFile) = 10 * 1024 * 1024
    /\ previewUrl = ObjectURL(2)
    /\ objectURLs = {ObjectURL(2)}
    /\ uploadError = Null

\* C15: a dropped file that fails validation sets uploadError to the message of
\* the check it failed and leaves uploadedFile and previewUrl as they were; so
\* the uploaded file, and the file of every analysis under way, is a valid one.
C15_InvalidDropRejected ==
    /\ [][\A f \in Files :
            DroppedNow(f) =>
               /\ ~ImageType(f) =>
                    /\ uploadError' = InvalidImageMessage
                    /\ uploadedFile' = uploadedFile /\ previewUrl' = previewUrl
               /\ (ImageType(f) /\ ~WithinLimit(f)) =>
                    /\ uploadError' = FileTooLargeMessage
                    /\ uploadedFile' = uploadedFile /\ previewUrl' = previewUrl
         ]_vars
    /\ [](/\ uploadedFile # Null => (ImageType(uploadedFile) /\ WithinLimit(uploadedFile))
          /\ \A i \in 1..Len(analyses) :
                /\ analyses[i] # Null
                /\ ImageType(analyses[i]) /\ WithinLimit(analyses[i]))

\* C15 witness: while an analysis is under way its file was removed and a file
\* that is too large was dropped: the message is shown and no file is uploaded.
C15_Witness ==
    /\ currentView = "upload"
    /\ uploadError = FileTooLargeMessage
    /\ uploadedFile = Null /\ previewUrl = Null
    /\ isAnalyzing /\ Len(analyses) = 1

\* C16: the upload flow is ordered. An analysis starts only from a state with a
\* validated file uploaded, with isAnalyzing set true in that step; a result is
\* delivered (analysisResult set, view switched to "results") only as the
\* completion of the oldest started analysis and names its file; analyzeImage
\* with no file uploaded changes nothing.
C16_UploadFlowOrdered ==
    /\ [][/\ Len(analyses') > Len(analyses) =>
               /\ currentView = "upload"
               /\ uploadedFile # Null
               /\ ImageType(uploadedFile) /\ WithinLimit(uploadedFile)
               /\ previewUrl # Null
               /\ ~isAnalyzing /\ isAnalyzing'
               /\ analyses' = Append(analyses, uploadedFile)
               /\ analysisResult' = analysisResult
          /\ (analysisResult' # analysisResult \/ Len(analyses') < Len(analyses)) =>
               /\ analyses # <<>>
               /\ analyses' = Tail(analyses)
               /\ analysisResult' = <<"result", Head(analyses)[2]>>
               /\ currentView' = "results"
          /\ (currentView = "upload" /\ uploadedFile = Null /\ analyzeImage) =>
               UNCHANGED vars
         ]_vars
    /\ [](analysisResult # Null =>
             \E f \in Files : /\ ImageType(f) /\ WithinLimit(f)
                              /\ analysisResult = <<"result", f[2]>>)

\* C16 witness: the analysis of the file of exactly the limit was delivered.
C16_Witness ==
    /\ currentView = "results"
    /\ analysisResult = <<"result", "scan.jpeg">>
    /\ analyses = <<>>
    /\ created = 1

\* The step in which login call c resolves: the response to its request (the
\* first attempt or a reissue) is a success.
LoginSucceedsNow(c) ==
    /\ calls[c].kind = "login"
    /\ AwaitingResponse(c)
    /\ calls'[c].pc = "done"
    /\ calls'[c].outcome[1] = "resolved"

\* C21: the step in which a login resolves leaves access_token, refresh_token
\* and the serialized user of the login response in localStorage and the
\* response's user as the context user (isAuthenticated true); the three keys
\* are written in that one step, in which nothing else happens: no other call
\* moves, loading and the location stay as they were.
C21_LoginStoresSession ==
    [][\A c \in CallIds :
          LoginSucceedsNow(c) =>
             LET data == calls'[c].outcome[2] IN
             /\ DOMAIN localStorage' = DOMAIN localStorage \cup Keys
             /\ localStorage'["access_token"] = data[2]
             /\ localStorage'["refresh_token"] = data[3]
             /\ localStorage'["user"] = JSONstringify(data[4])
             /\ JSONparse(localStorage'["user"]) = data[4]
             /\ user' = data[4]
             /\ user' # Null
             /\ \A d \in CallIds \ {c} : calls'[d] = calls[d]
             /\ UNCHANGED <<loading, href>>]_vars

\* C21 witness: a login as nurse, made while no call was in flight, resolved
\* on its first attempt and its session is what is stored and shown.
C21_Witness ==
    /\ ResolvedCall(1, "login")
    /\ calls[1].sent = 1
    /\ calls[2].pc = "idle"
    /\ calls[1].outcome[2][4] = UserObject("nurse")
    /\ localStorage["access_token"] = calls[1].outcome[2][2]
    /\ localStorage["refresh_token"] = RefreshToken("nurse")
    /\ localStorage["user"] = JSONstringify(UserObject("nurse"))
    /\ user = UserObject("nurse")

\* The step in which the request that call c reissued after its refresh is
\* answered with a failure.
ReissueFailsNow(c) ==
    /\ calls[c].pc = "resent"
    /\ calls'[c].resp2 # Null
    /\ ~IsSuccess(calls'[c].resp2)

\* C22: when the request reissued after a successful refresh fails, with any
\* status, a second 401 included, the call is rejected with that failure in
\* the same step, no second refresh exchange is sent, and localStorage, the
\* context user and the location are left as they were: the session is not
\* cleared and there is no redirect.
C22_ReissueFailurePropagates ==
    [][\A c \in CallIds :
          ReissueFailsNow(c) =>
             /\ calls'[c].pc = "done"
             /\ calls'[c].outcome = Rejected(<<"error", "request", 2, calls'[c].resp2[2]>>)
             /\ calls'[c].refreshes = 1
             /\ calls'[c].sent = 2
             /\ calls'[c].rresp = calls[c].rresp
             /\ localStorage' = localStorage
             /\ user' = user
             /\ href' = href]_vars

\* C22 witness: the reissue of a call was answered 401; the call is rejected
\* with it, and the session with the access token its refresh returned is
\* still stored and the location is not the login page.
C22_Witness ==
    \E c \in CallIds :
        /\ calls[c].pc = "done"
        /\ RefreshSucceeded(c)
        /\ calls[c].resp2 = Response(401, Null)
        /\ calls[c].outcome = Rejected(Error("request", 2, calls[c].resp2))
        /\ HasSession(localStorage)
        /\ localStorage["access_token"] = Data(calls[c].rresp)[2]
        /\ href # LoginPage

\* The session in a store is all-or-nothing: access_token is present only
\* together with refresh_token and user.
AllOrNothing(store) ==
    "access_token" \in DOMAIN store => Keys \subseteq DOMAIN store

\* C23: every step keeps the stored session all-or-nothing, and a store with
\* none of the three keys stays that way in every step but the one in which
\* a login resolves: no call that was in flight writes a key back.
C23_SessionAllOrNothing ==
    [][/\ AllOrNothing(localStorage) => AllOrNothing(localStorage')
       /\ (NoSession(localStorage) /\ ~(\E c \in CallIds : LoginSucceedsNow(c)))
            => NoSession(localStorage')]_vars

\* The state logout leaves, until a login resolves or a key is written: the
\* mount check has run, the context user is null, none of the keys is stored.
LoggedOut == ~loading /\ user = Null /\ NoSession(localStorage)

\* C24: a request sent from a logged-out state (a new call, or the reissue of
\* a call that was awaiting its response or its refresh exchange when logout
\* ran) carries no Authorization header.
C24_NoBearerAfterLogout ==
    [][\A c \in CallIds :
          (LoggedOut /\ DispatchedNow(c)) => calls'[c].auth = Null]_vars

\* Login call c has settled with a rejection.
RejectedLogin(c) ==
    /\ calls[c].kind = "login"
    /\ calls[c].pc = "done"
    /\ calls[c].outcome[1] = "rejected"

\* C25: a login that is rejected changes nothing and reports the login
\* endpoint's own error: no step of a login call other than the one in which
\* it resolves changes localStorage, the context user or the location, and a
\* rejected login was sent once, made no refresh exchange and is rejected
\* with the error of its only response.
C25_RejectedLoginChangesNothing ==
    /\ [][\A c \in CallIds :
            (calls'[c].kind = "login" /\ calls'[c] # calls[c] /\ ~LoginSucceedsNow(c))
            => /\ localStorage' = localStorage
               /\ user' = user
               /\ href' = href]_vars
    /\ [](\A c \in CallIds :
            RejectedLogin(c) =>
               /\ calls[c].sent = 1
               /\ calls[c].refreshes = 0
               /\ calls[c].outcome = Rejected(Error("request", 1, calls[c].resp1)))

\* The step in which the mount check runs.
MountNow == loading /\ ~loading'

\* C26: loading is true, and the context user null, until the mount check has
\* run, and false from then on. The check sets the user to the parse of the
\* stored user exactly when access_token and user are both stored and the
\* user string parses, leaving the storage as it is; when both are stored and
\* the string does not parse it removes the three keys and the user stays
\* null; in every other case it changes neither.
C26_MountCheck ==
    /\ [](loading => user = Null)
    /\ [][~loading => ~loading']_vars
    /\ [][MountNow =>
            LET token == getItem(localStorage, "access_token")
                userData == getItem(localStorage, "user")
                both == token # Null /\ userData # Null
                parses == userData # Null /\ JSONparse(userData) # SyntaxError
            IN /\ user' # Null <=> (both /\ parses)
               /\ (both /\ parses) =>
                    (user' = JSONparse(userData) /\ localStorage' = localStorage)
               /\ (both /\ ~parses) =>
                    (user' = Null /\ DOMAIN localStorage' \cap Keys = {})
               /\ ~both => (user' = Null /\ localStorage' = localStorage)]_vars

\* C26 witness: the mount check has run on a storage that held an access
\* token and the user string of nurse but no refresh token: the user is
\* restored and the storage is as it was.
C26_Witness ==
    /\ ~loading
    /\ user = UserObject("nurse")
    /\ DOMAIN localStorage = {"access_token", "user"}
    /\ JSONparse(localStorage["user"]) = user

\* C27: every started analysis finishes. isAnalyzing, once true, becomes
\* false again; an analysis waiting behind others moves up; the oldest
\* waiting analysis is delivered: its result is stored and the view is
\* "results"; and an analysis leaves the waiting ones only by that one
\* delivery, so onAnalysisComplete is called once for it.
C27_EveryAnalysisFinishes ==
    /\ isAnalyzing ~> ~isAnalyzing
    /\ \A f \in Files : \A i \in 2..MaxAnalyses :
          (Len(analyses) >= i /\ analyses[i] = f)
          ~> (Len(analyses) >= i - 1 /\ analyses[i - 1] = f)
    /\ \A f \in Files :
          (analyses # <<>> /\ Head(analyses) = f)
          ~> (analysisResult = <<"result", f[2]>> /\ currentView = "results")
    /\ [][analyses' # analyses =>
            \/ /\ analyses # <<>>
               /\ analyses' = Tail(analyses)
               /\ analysisResult' = <<"result", Head(analyses)[2]>>
               /\ currentView' = "results"
               /\ ~isAnalyzing'
            \/ \E f \in Files : analyses' = Append(analyses, f)]_vars

\* C27 witness: two analyses were started (the second after leaving the upload
\* view and coming back); the first has been delivered, the second is waiting
\* and will be.
C27_Witness ==
    /\ analysisResult = <<"result", "fundus.png">>
    /\ currentView = "results"
    /\ ~isAnalyzing
    /\ Len(analyses) = 1
    /\ Name(Head(analyses)) = "scan.jpeg"

\* C28: at most one analysis is in flight at any time.
C28_AtMostOneAnalysis == Len(analyses) <= 1

\* The step is the completion of the oldest waiting analysis.
CompletesNow == analyses # <<>> /\ analyses' = Tail(analyses)

\* C29: a started analysis is never cancelled. Removing the file and
\* navigating leave the waiting analyses as they are; an analysis keeps the
\* file that was uploaded when it started; and its completion, whatever the
\* view and the uploaded file are by then, stores a result that is not null
\* and names that file, and sets the view to "results".
C29_AnalysisNeverCancelled ==
    [][/\ Len(analyses') >= Len(analyses) =>
            /\ SubSeq(analyses', 1, Len(analyses)) = analyses
            /\ Len(analyses') > Len(analyses) =>
                 analyses' = Append(analyses, uploadedFile)
       /\ Len(analyses') < Len(analyses) => CompletesNow
       /\ CompletesNow =>
            /\ analysisResult' # Null
            /\ analysisResult'[2] = Head(analyses)[2]
            /\ currentView' = "results"]_vars

\* C29 witness: the result of fundus.png was delivered although its file had
\* been removed while the analysis was waiting (the one object URL made was
\* revoked, and only removeFile revokes).
C29_Witness ==
    /\ analysisResult = <<"result", "fundus.png">>
    /\ currentView = "results"
    /\ analyses = <<>>
    /\ created = 1
    /\ objectURLs = {}

\* The component stays mounted in the step.
StaysMounted == currentView = "upload" /\ currentView' = "upload"

\* C30: in every state uploadedFile is non-null exactly when previewUrl is.
\* While the component is mounted, a step that changes either one is an
\* accepted drop, which sets both from null, or removeFile, which sets both to
\* null and clears uploadError.
C30_FileIffPreview ==
    /\ [](uploadedFile # Null <=> previewUrl # Null)
    /\ [][(StaysMounted /\ <<uploadedFile, previewUrl>>' # <<uploadedFile, previewUrl>>)
          => \/ /\ uploadedFile = Null /\ previewUrl = Null
                /\ uploadedFile' # Null /\ previewUrl' # Null
                /\ uploadError' = Null
             \/ /\ uploadedFile # Null /\ previewUrl # Null
                /\ uploadedFile' = Null /\ previewUrl' = Null
                /\ uploadError' = Null
                /\ previewUrl \notin objectURLs']_vars

\* C30 witness: a second file is uploaded, with its preview, after the first
\* was removed (its URL revoked) during an analysis that is still waiting.
C30_Witness ==
    /\ currentView = "upload"
    /\ uploadedFile # Null
    /\ previewUrl = ObjectURL(2)
    /\ objectURLs = {ObjectURL(2)}
    /\ isAnalyzing
    /\ Len(analyses) = 1
    /\ Head(analyses) # uploadedFile

====
